---- MODULE Spec2Model ----
(***************************************************************************)
(* The content-collection and feed-generation pipeline of the blog: the    *)
(* post loader (lib/get-single-post.js, lib/get-all-posts.js), the home    *)
(* page's getStaticProps with its date sort, and generateRSSFeed           *)
(* (pages/index.js).                                                       *)
(*                                                                         *)
(* JavaScript strings are sequences of tokens, so that the loader's        *)
(* slug.replace(/\.md$/, "") and the template literals `${realSlug}.md`    *)
(* and `${baseUrl}/blog/${slug}` are computed, not assumed.  JavaScript    *)
(* values are tagged records; a missing object property is a key outside   *)
(* the DOMAIN of the function that models the object.                      *)
(***************************************************************************)
EXTENDS Integers, Sequences, FiniteSets

VARIABLES
    entries,    \* fs.readdirSync(postsDirectory): the entry names, in enumeration order
    files,      \* the regular files of the posts directory: path -> file contents
    readable,   \* whether the posts directory can be read
    call,       \* the loader call made last: its function, arguments and outcome
    pc,         \* the position of the home page's getStaticProps
    articles,   \* the local `articles` of the home page's getStaticProps
    props,      \* what the home page's getStaticProps returned
    feed,       \* the Feed object generateRSSFeed has filled
    writes,     \* the fs.writeFileSync calls the running getStaticProps has made
    rss         \* the file public/rss.xml

vars == <<entries, files, readable, call, pc, articles, props, feed, writes, rss>>

\* the posts directory
store == <<entries, files, readable>>

----------------------------------------------------------------------------
(* Bounds *)

\* the longest field list passed to the loader
MaxFields == 2
\* the largest number of entries of the posts directory
MaxPosts == 3
\* the largest number of entries of a directory whose posts have full headers
MaxFeedPosts == 2
\* the largest number of entries of a directory with entries of any name
MaxEntries == 2

----------------------------------------------------------------------------
(* JavaScript values *)

Str(s) == [type |-> "string", s |-> s]
Undefined == [type |-> "undefined"]
Null == [type |-> "null"]
False == [type |-> "boolean", b |-> FALSE]
Zero == [type |-> "number", n |-> 0]

\* the values an if (value) test takes for false
falsy == {Undefined, Null, False, Zero, Str(<<>>)}

\* String(v), as a template literal applies it
ToString(v) ==
    IF v.type = "string" THEN v.s ELSE <<"undefined">>

\* obj[key]: undefined for a key the object does not have
Get(obj, key) ==
    IF key \in DOMAIN obj THEN obj[key] ELSE Undefined

\* obj[key] = value
Put(obj, key, value) ==
    [k \in DOMAIN obj \cup {key} |-> IF k = key THEN value ELSE obj[k]]

EmptyObject == [k \in {} |-> Undefined]

Return(v) == [ok |-> TRUE, value |-> v]
Throw(e) == [ok |-> FALSE, error |-> e]

----------------------------------------------------------------------------
(* lib/get-single-post.js, lib/get-all-posts.js *)

basicMetaTags ==
    << "title", "excerpt", "description", "keywords", "content", "coverImage",
       "date", "author", "slug", "twitterCard", "twitterSite", "twitterTitle",
       "twitterDescription", "twitterImage", "ogTitle", "ogDescription",
       "ogImage", "ogURL", "ogSiteName" >>

\* realSlug with every trailing ".md" removed
RECURSIVE realSlug_stripsEvery(_)
realSlug_stripsEvery(slug) ==
    IF Len(slug) > 0 /\ slug[Len(slug)] = ".md"
    THEN realSlug_stripsEvery(SubSeq(slug, 1, Len(slug) - 1))
    ELSE slug

\* slug.replace(/\.md$/, "")
realSlug(slug) ==
    IF Len(slug) > 0 /\ slug[Len(slug)] = ".md"
    THEN SubSeq(slug, 1, Len(slug) - 1)
    ELSE slug

\* fullPath reading the file of the identifier's own name when there is one
fullPath_entryFirst(slug) ==
    IF slug \in DOMAIN files THEN slug ELSE realSlug(slug) \o <<".md">>

\* join(postsDirectory, `${realSlug}.md`), relative to postsDirectory
fullPath(slug) ==
    realSlug(slug) \o <<".md">>

\* fs.readFileSync(fullPath, "utf8")
readFileSync(path) ==
    IF path \in DOMAIN files THEN Return(files[path])
    ELSE IF path \in {entries[i] : i \in 1..Len(entries)} THEN Throw("EISDIR")
    ELSE Throw("ENOENT")

\* matter taking a header it cannot parse for an empty one
matter_lenient(fileContents) ==
    IF fileContents.wellFormed
    THEN Return([data |-> fileContents.data, content |-> fileContents.content])
    ELSE Return([data |-> <<>>, content |-> <<>>])

\* matter(fileContents): the parsed header and the body, or a parse error
matter(fileContents) ==
    IF fileContents.wellFormed
    THEN Return([data |-> fileContents.data, content |-> fileContents.content])
    ELSE Throw("YAMLException")

\* pickField with a missing field defaulted to the empty string
pickField_defaulting(items, field, data, content) ==
    LET fromHeader ==
            Put(items, field, IF field \in DOMAIN data THEN data[field] ELSE Str(<<>>))
    IN  IF field = "content" THEN Put(fromHeader, field, Str(content)) ELSE fromHeader

\* pickField copying the whole header into the record
pickField_wholeHeader(items, field, data, content) ==
    LET fromHeader ==
            [k \in DOMAIN items \cup DOMAIN data |->
                IF k \in DOMAIN data THEN data[k] ELSE items[k]]
    IN  IF field = "content" THEN Put(fromHeader, field, Str(content)) ELSE fromHeader

\* pickField giving content the body only when the body is not empty
pickField_bodyIfNotEmpty(items, field, data, content) ==
    LET fromHeader ==
            IF field \in DOMAIN data THEN Put(items, field, data[field]) ELSE items
    IN  IF field = "content" /\ content # <<>>
        THEN Put(fromHeader, field, Str(content))
        ELSE fromHeader

\* pickField with if (data[field]) for the test of the header
pickField_ifTruthy(items, field, data, content) ==
    LET fromHeader ==
            IF field \in DOMAIN data /\ data[field] \notin falsy
            THEN Put(items, field, data[field])
            ELSE items
    IN  IF field = "content" THEN Put(fromHeader, field, Str(content)) ELSE fromHeader

\* pickField with the two tests exclusive, the header's content key winning
pickField_headerWins(items, field, data, content) ==
    IF field \in DOMAIN data THEN Put(items, field, data[field])
    ELSE IF field = "content" THEN Put(items, field, Str(content))
    ELSE items

\* one pass of fields.forEach((field) => { ... }) of getPostBySlug
pickField(items, field, data, content) ==
    LET fromHeader ==
            IF field \in DOMAIN data THEN Put(items, field, data[field]) ELSE items
    IN  IF field = "content" THEN Put(fromHeader, field, Str(content)) ELSE fromHeader

RECURSIVE forEachField(_, _, _, _)
forEachField(fields, items, data, content) ==
    IF fields = <<>>
    THEN items
    ELSE forEachField(Tail(fields), pickField(items, Head(fields), data, content),
                      data, content)

getPostBySlug(slug, fields) ==
    LET fileContents == readFileSync(fullPath(slug))
    IN  IF ~fileContents.ok
        THEN fileContents
        ELSE LET parsed == matter(fileContents.value)
             IN  IF ~parsed.ok
                 THEN parsed
                 ELSE Return(forEachField(fields, EmptyObject,
                                          parsed.value.data, parsed.value.content))

\* fs.readdirSync(postsDirectory)
getPostSlugs ==
    IF readable THEN Return(entries) ELSE Throw("ENOENT")

\* mapPosts building its result back to front
RECURSIVE mapPosts_reversed(_, _)
mapPosts_reversed(slugs, fields) ==
    IF slugs = <<>>
    THEN Return(<<>>)
    ELSE LET post == getPostBySlug(Head(slugs), fields)
         IN  IF ~post.ok
             THEN post
             ELSE LET rest == mapPosts_reversed(Tail(slugs), fields)
                  IN  IF ~rest.ok THEN rest ELSE Return(rest.value \o <<post.value>>)

\* mapPosts leaving out the entries whose load throws
RECURSIVE mapPosts_skipsFailed(_, _)
mapPosts_skipsFailed(slugs, fields) ==
    IF slugs = <<>>
    THEN Return(<<>>)
    ELSE LET post == getPostBySlug(Head(slugs), fields)
             rest == mapPosts_skipsFailed(Tail(slugs), fields)
         IN  IF ~post.ok THEN rest ELSE Return(<<post.value>> \o rest.value)

\* slugs.map((slug) => getPostBySlug(slug, fields)): the first load that throws
\* ends the map
RECURSIVE mapPosts(_, _)
mapPosts(slugs, fields) ==
    IF slugs = <<>>
    THEN Return(<<>>)
    ELSE LET post == getPostBySlug(Head(slugs), fields)
         IN  IF ~post.ok
             THEN post
             ELSE LET rest == mapPosts(Tail(slugs), fields)
                  IN  IF ~rest.ok THEN rest ELSE Return(<<post.value>> \o rest.value)

getAllPosts(fields) ==
    LET slugs == getPostSlugs
    IN  IF ~slugs.ok THEN slugs ELSE mapPosts(slugs.value, fields)

----------------------------------------------------------------------------
(* pages/blog/[slug].js *)

\* markdownToHtml(markdown): the markdown rendered to HTML
markdownToHtml(markdown) ==
    <<"<html>">> \o markdown

\* post?.content || ""
contentOrEmpty(post) ==
    IF "content" \in DOMAIN post THEN post["content"].s ELSE <<>>

\* postGetStaticProps returning the converted content and the slug alone
postGetStaticProps_contentAndSlug(params) ==
    LET post == IF params.slug.type = "string"
                THEN getPostBySlug(params.slug.s, <<"slug", "content">>)
                ELSE Throw("TypeError")
    IN  IF ~post.ok
        THEN post
        ELSE Return([props |->
                [post |-> Put(post.value, "content",
                              Str(markdownToHtml(contentOrEmpty(post.value))))]])

\* getStaticProps({ params }) of the post page
postGetStaticProps(params) ==
    LET post == IF params.slug.type = "string"
                THEN getPostBySlug(params.slug.s, basicMetaTags)
                ELSE Throw("TypeError")
    IN  IF ~post.ok
        THEN post
        ELSE Return([props |->
                [post |-> Put(post.value, "content",
                              Str(markdownToHtml(contentOrEmpty(post.value))))]])

\* Post rendering the article whatever the post is
Post_rendersAnyPost(post, isFallback) ==
    [page |-> "article", parts |-> <<"PostHead", "PostHeader", "PostBody">>]

\* Post({ post }), router.isFallback being isFallback
Post(post, isFallback) ==
    IF ~isFallback /\ Get(post, "slug") \in falsy
    THEN [page |-> "ErrorPage", statusCode |-> 404]
    ELSE [page |-> "article", parts |-> <<"PostHead", "PostHeader", "PostBody">>]

\* getStaticPaths(): one path per record of getAllPosts(["slug"])
getStaticPaths ==
    LET posts == getAllPosts(<<"slug">>)
    IN  IF ~posts.ok
        THEN posts
        ELSE Return([paths    |-> [i \in 1..Len(posts.value) |->
                                     [params |-> [slug |-> Get(posts.value[i], "slug")]]],
                     fallback |-> FALSE])

----------------------------------------------------------------------------
(* pages/index.js *)

baseUrl == <<"https://bgolebiowski.com">>

NaN == -1

\* Date.parse of the date strings the posts carry
dateTable ==
    [s \in {"2021-01-01", "2022-06-20", "2023-06-18"} |->
        CASE s = "2021-01-01" -> 20210101
          [] s = "2022-06-20" -> 20220620
          [] s = "2023-06-18" -> 20230618]

\* new Date(date): the time value, NaN for an invalid date
newDate(date) ==
    IF date.type = "string" /\ Len(date.s) = 1 /\ date.s[1] \in DOMAIN dateTable
    THEN dateTable[date.s[1]]
    ELSE NaN

\* new Date(..) < new Date(..): false when either side is NaN
dateLess(t, u) ==
    t # NaN /\ u # NaN /\ t < u

\* compare returning 0 for two dates neither of which is the earlier
compare_zeroOnTies(a, b) ==
    IF dateLess(newDate(Get(a, "date")), newDate(Get(b, "date"))) THEN 1
    ELSE IF dateLess(newDate(Get(b, "date")), newDate(Get(a, "date"))) THEN -1
    ELSE 0

\* (a, b) => (new Date(a.date) < new Date(b.date) ? 1 : -1)
compare(a, b) ==
    IF dateLess(newDate(Get(a, "date")), newDate(Get(b, "date"))) THEN 1 ELSE -1

permutations(n) ==
    {p \in [1..n -> 1..n] : \A i, j \in 1..n : p[i] = p[j] => i = j}

\* the sort writing the parsed date back into every record it has compared
sortOutcomes_normalisesDates(list) ==
    LET parsed(record) ==
            [k \in DOMAIN record \cup {"date"} |->
                IF k = "date" THEN Str(<<"parsed">>) ELSE record[k]]
    IN  {[i \in 1..Len(list) |-> parsed(list[p[i]])] : p \in
            {q \in permutations(Len(list)) :
                \A i \in 1..(Len(list) - 1) : compare(list[q[i]], list[q[i + 1]]) < 0}}

\* articles.sort(compareFn).  The comparator never returns 0, so for posts
\* with equal or invalid dates it is not a consistent comparator and the
\* resulting order is implementation-defined: the outcomes are the
\* permutations an insertion or merge sort can leave, those in which
\* compareFn puts every element before its successor.
sortOutcomes(list) ==
    {[i \in 1..Len(list) |-> list[p[i]]] : p \in
        {q \in permutations(Len(list)) :
            \A i \in 1..(Len(list) - 1) : compare(list[q[i]], list[q[i + 1]]) < 0}}

\* feedItem with the title for the description of a post without excerpt
feedItem_defaultsExcerpt(post) ==
    LET url == Str(baseUrl \o <<"/blog/">> \o ToString(Get(post, "slug")))
    IN  [title       |-> Get(post, "title"),
         id          |-> url,
         link        |-> url,
         description |-> IF "excerpt" \in DOMAIN post THEN post["excerpt"]
                                                      ELSE Get(post, "title"),
         content     |-> Get(post, "content"),
         author      |-> <<Get(post, "author")>>,
         date        |-> newDate(Get(post, "date")),
         image       |-> Get(post, "coverImage"),
         category    |-> Get(post, "keywords")]

\* feedItem with description and content taken from each other's post field
feedItem_swapsExcerptAndContent(post) ==
    LET url == Str(baseUrl \o <<"/blog/">> \o ToString(Get(post, "slug")))
    IN  [title       |-> Get(post, "title"),
         id          |-> url,
         link        |-> url,
         description |-> Get(post, "content"),
         content     |-> Get(post, "excerpt"),
         author      |-> <<Get(post, "author")>>,
         date        |-> newDate(Get(post, "date")),
         image       |-> Get(post, "coverImage"),
         category    |-> Get(post, "keywords")]

\* feedItem with the slug alone as the item's id
feedItem_idIsSlug(post) ==
    LET url == Str(baseUrl \o <<"/blog/">> \o ToString(Get(post, "slug")))
    IN  [title       |-> Get(post, "title"),
         id          |-> Str(ToString(Get(post, "slug"))),
         link        |-> url,
         description |-> Get(post, "excerpt"),
         content     |-> Get(post, "content"),
         author      |-> <<Get(post, "author")>>,
         date        |-> newDate(Get(post, "date")),
         image       |-> Get(post, "coverImage"),
         category    |-> Get(post, "keywords")]

\* the argument of feed.addItem for one post
feedItem(post) ==
    LET url == Str(baseUrl \o <<"/blog/">> \o ToString(Get(post, "slug")))
    IN  [title       |-> Get(post, "title"),
         id          |-> url,
         link        |-> url,
         description |-> Get(post, "excerpt"),
         content     |-> Get(post, "content"),
         author      |-> <<Get(post, "author")>>,
         date        |-> newDate(Get(post, "date")),
         image       |-> Get(post, "coverImage"),
         category    |-> Get(post, "keywords")]

\* buildFeed leaving out the posts that have no slug
buildFeed_skipsNoSlug(list) ==
    LET withSlug(post) == "slug" \in DOMAIN post
        kept == SelectSeq(list, withSlug)
    IN  [built       |-> TRUE,
         title       |-> <<"Articles by Bartosz Golebiowski">>,
         description |-> <<"Blog with articles about frontend technology, react, micro-frontends, single-spa">>,
         id          |-> baseUrl,
         link        |-> baseUrl,
         items       |-> [i \in 1..Len(kept) |-> feedItem(kept[i])]]

\* new Feed({...}) followed by articles.forEach((post) => feed.addItem({...}))
buildFeed(list) ==
    [built       |-> TRUE,
     title       |-> <<"Articles by Bartosz Golebiowski">>,
     description |-> <<"Blog with articles about frontend technology, react, micro-frontends, single-spa">>,
     id          |-> baseUrl,
     link        |-> baseUrl,
     items       |-> [i \in 1..Len(list) |-> feedItem(list[i])]]

\* feed.rss2(): the channel and one <item> per feed item, in the order added
rss2(self) ==
    [channel |-> [title |-> self.title, description |-> self.description,
                  link |-> self.link],
     item    |-> [i \in 1..Len(self.items) |->
                    [title       |-> self.items[i].title,
                     link        |-> self.items[i].link,
                     guid        |-> self.items[i].id,
                     pubDate     |-> self.items[i].date,
                     description |-> self.items[i].description,
                     encoded     |-> self.items[i].content,
                     category    |-> self.items[i].category,
                     enclosure   |-> self.items[i].image]]]

\* generateRSSFeed leaving out the posts the file on disk has an item for
generateRSSFeed_addsNewOnly(list) ==
    LET old == IF rss.exists THEN {rss.xml.item[i].guid : i \in 1..Len(rss.xml.item)}
                             ELSE {}
        isNew(post) == feedItem(post).id \notin old
    IN  [exists |-> TRUE, xml |-> rss2(buildFeed(SelectSeq(list, isNew)))]

\* generateRSSFeed writing no file for a list without posts
generateRSSFeed_needsPosts(list) ==
    IF list = <<>>
    THEN [exists |-> FALSE]
    ELSE [exists |-> TRUE, xml |-> rss2(buildFeed(list))]

\* generateRSSFeed(articles): what fs.writeFileSync leaves in public/rss.xml
generateRSSFeed(list) ==
    [exists |-> TRUE, xml |-> rss2(buildFeed(list))]

----------------------------------------------------------------------------
(* The posts directory *)

NoCall == [fn |-> "none"]
NoFile == [exists |-> FALSE]
NoProps == [returned |-> FALSE]
NoFeed == [built |-> FALSE]

malformed == [wellFormed |-> FALSE]
postFile(data, content) == [wellFormed |-> TRUE, data |-> data, content |-> content]

\* every header over the keys of `values`, a key being present or absent
headers(values) ==
    UNION {{h \in [K -> UNION {values[k] : k \in K}] : \A k \in K : h[k] \in values[k]} :
            K \in SUBSET DOMAIN values}

withKeys(h, fixed) ==
    [k \in DOMAIN h \cup DOMAIN fixed |-> IF k \in DOMAIN h THEN h[k] ELSE fixed[k]]

\* title and image (a key outside basicMetaTags) are in the header of every
\* post of a build
fixedKeys == [title |-> Str(<<"T">>), image |-> Str(<<"/cover.png">>)]

\* the posts of a build: slug and date present or absent, the slugs varying
buildValues ==
    [slug |-> {Str(<<"a">>), Str(<<"undefined">>)},
     date |-> {Str(<<"2021-01-01">>)}]

buildFiles ==
    {postFile(withKeys(h, fixedKeys), <<"body">>) : h \in headers(buildValues)}
    \cup {malformed}

\* the posts of a build whose sort is looked at: the dates varying, one of
\* them a string that is no date
sortValues ==
    [slug |-> {Str(<<"a">>)},
     date |-> {Str(<<"2021-01-01">>), Str(<<"2022-06-20">>), Str(<<"next week">>)}]

sortFiles ==
    {postFile(withKeys(h, fixedKeys), <<"body">>) : h \in headers(sortValues)}

\* a header with every field generateRSSFeed reads, the values naming their
\* field and the post v they belong to
fullHeader(v, date) ==
    [title      |-> Str(<<"title", v>>),
     excerpt    |-> Str(<<"excerpt", v>>),
     keywords   |-> Str(<<"keywords", v>>),
     coverImage |-> Str(<<"coverImage", v>>),
     author     |-> Str(<<"author", v>>),
     date       |-> Str(<<date>>),
     slug       |-> Str(<<v>>)]

without(h, key) == [k \in DOMAIN h \ {key} |-> h[k]]

\* the posts of a build whose feed items are looked at: two posts with full
\* headers, the first of them with one of the fields missing, and with an
\* empty body
feedFiles ==
    {postFile(fullHeader("a", "2021-01-01"), <<"body", "a">>),
     postFile(fullHeader("b", "2022-06-20"), <<"body", "b">>),
     postFile(fullHeader("a", "2021-01-01"), <<>>)}
    \cup {postFile(without(fullHeader("a", "2021-01-01"), k), <<"body", "a">>) :
            k \in DOMAIN fullHeader("a", "2021-01-01")}

\* the posts of a directory that is built again and again
rebuildFiles ==
    {postFile(fullHeader("a", "2021-01-01"), <<"body", "a">>),
     postFile(fullHeader("b", "2022-06-20"), <<"body", "b">>),
     malformed}

postNames ==
    << <<"a", ".md">>, <<"b", ".md">>, <<"c", ".md">>, <<"d", ".md">>, <<"e", ".md">> >>

\* the headers and bodies a single post file can have
loaderValues ==
    [title   |-> {Str(<<"X">>), Str(<<>>), False, Zero, Null},
     date    |-> {Str(<<"2020-01-01">>)},
     slug    |-> {Str(<<"a">>), Str(<<"b">>)},
     image   |-> {Str(<<"/cover.png">>)},
     content |-> {Str(<<"header">>)}]

loaderFiles ==
    {postFile(h, b) : h \in headers(loaderValues), b \in {<<>>, <<"body">>}}
    \cup {malformed}

loaderNames == {<<"a", ".md">>, <<"a">>, <<"a", ".md", ".md">>}

slugArguments == {<<"a">>, <<"a", ".md">>, <<"b">>, <<"a", ".md", ".md">>}

\* the names an entry of the posts directory can have, and the regular
\* files among the entries; an entry that is no regular file is a directory
entryNames ==
    {<<"a">>, <<"a", ".md">>, <<"n", ".txt">>, <<"n", ".txt", ".md">>}

entryFiles ==
    {postFile([title |-> Str(<<"X">>)], <<"body">>),
     postFile([title |-> Str(<<"Y">>)], <<>>)}

entryFieldLists == {<<"title">>, <<"content", "title">>}

seqsUpTo(S, n) == UNION {[1..k -> S] : k \in 0..n}

\* the field lists getAllPosts is called with on a whole directory
buildFieldLists ==
    {<<"slug">>, <<"title", "date">>, <<"content", "slug", "image">>, basicMetaTags}

fieldLists ==
    seqsUpTo({"title", "excerpt", "slug", "content"}, MaxFields) \cup {basicMetaTags}

----------------------------------------------------------------------------
(* The loader called on one post file *)

InitLoader ==
    /\ \E name \in loaderNames, file \in loaderFiles :
          /\ entries = <<name>>
          /\ files = [p \in {name} |-> file]
    /\ readable = TRUE
    /\ call = NoCall
    /\ pc = "idle"
    /\ articles = <<>>
    /\ props = NoProps
    /\ feed = NoFeed
    /\ writes = 0
    /\ rss = NoFile

\* one call of getPostBySlug on the post file drawn
CallGetPostBySlug ==
    /\ pc = "idle"
    /\ call = NoCall
    /\ \E slug \in slugArguments, fields \in fieldLists :
          call' = [fn |-> "getPostBySlug", slug |-> slug, fields |-> fields,
                   result |-> getPostBySlug(slug, fields)]
    /\ UNCHANGED <<store, pc, articles, props, feed, writes, rss>>

\* one call of getAllPosts(fields) on the directory drawn
callGetAllPosts(lists) ==
    /\ pc = "idle"
    /\ call = NoCall
    /\ \E fields \in lists :
          call' = [fn |-> "getAllPosts", fields |-> fields,
                   result |-> getAllPosts(fields)]
    /\ UNCHANGED <<store, pc, articles, props, feed, writes, rss>>

CallGetAllPosts ==
    callGetAllPosts(fieldLists)

NextLoader ==
    \/ CallGetPostBySlug
    \/ CallGetAllPosts

SpecLoader == InitLoader /\ [][NextLoader]_vars

----------------------------------------------------------------------------
(* A build: the home page's getStaticProps *)

\* the posts directories of at most n files, named in enumeration order, and
\* the directory that cannot be read
directories(contents, n) ==
    UNION {{[entries  |-> SubSeq(postNames, 1, k),
             files    |-> [p \in {postNames[i] : i \in 1..k} |->
                             content[CHOOSE i \in 1..k : postNames[i] = p]],
             readable |-> TRUE] : content \in [1..k -> contents]} : k \in 0..n}
    \cup {[entries |-> <<>>, files |-> <<>>, readable |-> FALSE]}

drawDirectory(contents, n) ==
    \E d \in directories(contents, n) :
        /\ entries = d.entries
        /\ files = d.files
        /\ readable = d.readable

beforeBuild ==
    /\ call = NoCall
    /\ pc = "idle"
    /\ articles = <<>>
    /\ props = NoProps
    /\ feed = NoFeed
    /\ writes = 0
    /\ rss = NoFile

Init ==
    /\ drawDirectory(buildFiles, MaxPosts)
    /\ beforeBuild

\* const articles = await getAllPosts();
Enumerate ==
    /\ pc = "idle"
    /\ LET result == getAllPosts(basicMetaTags)
       IN  /\ call' = [fn |-> "getAllPosts", fields |-> basicMetaTags, result |-> result]
           /\ IF result.ok
              THEN articles' = result.value /\ pc' = "loaded"
              ELSE articles' = articles /\ pc' = "failed"
    /\ UNCHANGED <<store, props, feed, writes, rss>>

\* articles.sort((a, b) => (new Date(a.date) < new Date(b.date) ? 1 : -1));
Sort ==
    /\ pc = "loaded"
    /\ articles' \in sortOutcomes(articles)
    /\ pc' = "sorted"
    /\ UNCHANGED <<store, call, props, feed, writes, rss>>

\* WriteFeed taking the place of the sort
WriteFeed_beforeSort ==
    /\ pc = "loaded"
    /\ feed' = buildFeed(articles)
    /\ writes' = writes + 1
    /\ rss' = generateRSSFeed(articles)
    /\ pc' = "written"
    /\ UNCHANGED <<store, call, articles, props>>

\* WriteFeed appending the items to those of the file on disk
WriteFeed_appends ==
    /\ pc = "sorted"
    /\ feed' = buildFeed(articles)
    /\ writes' = writes + 1
    /\ rss' = IF rss.exists
              THEN [exists |-> TRUE,
                    xml |-> [channel |-> rss.xml.channel,
                             item |-> rss.xml.item \o generateRSSFeed(articles).xml.item]]
              ELSE generateRSSFeed(articles)
    /\ pc' = "written"
    /\ UNCHANGED <<store, call, articles, props>>

\* generateRSSFeed(articles); fs.writeFileSync succeeds
WriteFeed ==
    /\ pc = "sorted"
    /\ feed' = buildFeed(articles)
    /\ writes' = writes + 1
    /\ rss' = generateRSSFeed(articles)
    /\ pc' = "written"
    /\ UNCHANGED <<store, call, articles, props>>

\* WriteFeedFails with the failed write tried once more
WriteFeedFails_retries ==
    /\ pc = "sorted"
    /\ writes < 2
    /\ feed' = buildFeed(articles)
    /\ writes' = writes + 1
    /\ UNCHANGED <<store, call, pc, articles, props, rss>>

\* generateRSSFeed(articles); fs.writeFileSync throws, and nothing catches it
WriteFeedFails ==
    /\ pc = "sorted"
    /\ feed' = buildFeed(articles)
    /\ writes' = writes + 1
    /\ pc' = "failed"
    /\ UNCHANGED <<store, call, articles, props, rss>>

\* return { props: { articles } };
ReturnProps ==
    /\ pc = "written"
    /\ props' = [returned |-> TRUE, articles |-> articles]
    /\ pc' = "done"
    /\ UNCHANGED <<store, call, articles, feed, writes, rss>>

\* getAllPosts called on the whole directory with a caller's field list
CallGetAllPostsOfBuild ==
    callGetAllPosts(buildFieldLists)

\* GetStaticPaths writing a feed of the posts it has listed
GetStaticPaths_writesFeed ==
    /\ pc = "idle"
    /\ call = NoCall
    /\ call' = [fn |-> "getStaticPaths", result |-> getStaticPaths]
    /\ rss' = IF getAllPosts(<<"slug">>).ok
              THEN generateRSSFeed(getAllPosts(<<"slug">>).value)
              ELSE rss
    /\ UNCHANGED <<store, pc, articles, props, feed, writes>>

\* the build asks the post page for its paths
GetStaticPaths ==
    /\ pc = "idle"
    /\ call = NoCall
    /\ call' = [fn |-> "getStaticPaths", result |-> getStaticPaths]
    /\ UNCHANGED <<store, pc, articles, props, feed, writes, rss>>

\* the build asks the post page for the props of one of its paths
PostGetStaticProps ==
    /\ pc = "idle"
    /\ call.fn = "getStaticPaths"
    /\ call.result.ok
    /\ \E i \in 1..Len(call.result.value.paths) :
          LET params == call.result.value.paths[i].params
          IN  call' = [fn |-> "getStaticProps", index |-> i, params |-> params,
                       fallback |-> call.result.value.fallback,
                       result |-> postGetStaticProps(params)]
    /\ UNCHANGED <<store, pc, articles, props, feed, writes, rss>>

\* the build renders the page of the path with the props returned for it;
\* the router is in fallback mode only where getStaticPaths allows fallback
RenderPost ==
    /\ pc = "idle"
    /\ call.fn = "getStaticProps"
    /\ call.result.ok
    /\ \E isFallback \in (IF call.fallback THEN BOOLEAN ELSE {FALSE}) :
          call' = [fn |-> "Post", index |-> call.index,
                   post |-> call.result.value.props.post,
                   isFallback |-> isFallback,
                   page |-> Post(call.result.value.props.post, isFallback)]
    /\ UNCHANGED <<store, pc, articles, props, feed, writes, rss>>

Next ==
    \/ CallGetAllPostsOfBuild
    \/ GetStaticPaths
    \/ PostGetStaticProps
    \/ RenderPost
    \/ Enumerate
    \/ Sort
    \/ WriteFeed
    \/ WriteFeedFails
    \/ ReturnProps

Spec == Init /\ [][Next]_vars

\* the sort applied once more to the list it has sorted
SortAgain ==
    /\ pc = "sorted"
    /\ articles' \in sortOutcomes(articles)
    /\ pc' = "sortedTwice"
    /\ UNCHANGED <<store, call, props, feed, writes, rss>>

NextSort ==
    \/ Next
    \/ SortAgain

InitSort ==
    /\ drawDirectory(sortFiles, MaxPosts)
    /\ beforeBuild

SpecSort == InitSort /\ [][NextSort]_vars

\* the next build: the posts directory is whatever the author has left in
\* it, getStaticProps starts anew, and the files and pages of the builds
\* before are still there
NextBuild ==
    /\ pc \in {"done", "failed"}
    /\ \E d \in directories(rebuildFiles, MaxFeedPosts) :
          /\ entries' = d.entries
          /\ files' = d.files
          /\ readable' = d.readable
    /\ call' = NoCall
    /\ pc' = "idle"
    /\ articles' = <<>>
    /\ feed' = NoFeed
    /\ writes' = 0
    /\ UNCHANGED <<props, rss>>

NextRebuild ==
    \/ Next
    \/ NextBuild

InitRebuild ==
    /\ drawDirectory(rebuildFiles, MaxFeedPosts)
    /\ beforeBuild

SpecRebuild == InitRebuild /\ [][NextRebuild]_vars

\* a directory whose entries are markdown files, other files and
\* sub-directories
InitEntries ==
    /\ \E k \in 0..MaxEntries :
          \E names \in [1..k -> entryNames] :
              /\ \A i, j \in 1..k : names[i] = names[j] => i = j
              /\ entries = names
              /\ \E regular \in SUBSET {names[i] : i \in 1..k} :
                    files \in [regular -> entryFiles]
    /\ readable = TRUE
    /\ beforeBuild

CallGetAllPostsOfEntries ==
    callGetAllPosts(entryFieldLists)

NextEntries ==
    \/ CallGetAllPostsOfEntries
    \/ GetStaticPaths

SpecEntries == InitEntries /\ [][NextEntries]_vars

InitFeed ==
    /\ drawDirectory(feedFiles, MaxFeedPosts)
    /\ beforeBuild

SpecFeed == InitFeed /\ [][Next]_vars

----------------------------------------------------------------------------
(* Claims about the loader, checked under SpecLoader *)

range(list) == {list[i] : i \in 1..Len(list)}

\* the post file of the directory SpecLoader draws
theFile == files[entries[1]]

loadedOne ==
    call.fn = "getPostBySlug" /\ call.result.ok

\* C1: getPostBySlug returns a record whose keys are exactly the requested
\* fields the header has, plus content when content was requested; a header
\* key carries the header's value, content carries the body; a requested
\* field the header lacks gets no key.
C1_ProjectionIsIntersection ==
    loadedOne =>
        LET record == call.result.value
            requested == range(call.fields)
        IN  /\ DOMAIN record =
                 (requested \cap DOMAIN theFile.data)
                 \cup (IF "content" \in requested THEN {"content"} ELSE {})
            /\ \A k \in DOMAIN record :
                 record[k] = IF k = "content" THEN Str(theFile.content)
                             ELSE theFile.data[k]

\* the example of the spec: header {title, date}, fields ["title", "excerpt"]
C1_Witness ==
    /\ loadedOne
    /\ call.fields = <<"title", "excerpt">>
    /\ DOMAIN theFile.data = {"title", "date"}
    /\ DOMAIN call.result.value = {"title"}

\* C2: no record returned by getPostBySlug or getAllPosts for a field list
\* has a key outside that list.
C2_KeysWithinFieldList ==
    /\ loadedOne => DOMAIN call.result.value \subseteq range(call.fields)
    /\ (call.fn = "getAllPosts" /\ call.result.ok) =>
          \A i \in 1..Len(call.result.value) :
              DOMAIN call.result.value[i] \subseteq range(call.fields)

\* a header with more fields than the list asks for, loaded through getAllPosts
C2_Witness ==
    /\ call.fn = "getAllPosts" /\ call.result.ok
    /\ call.fields = <<"title">>
    /\ DOMAIN theFile.data = {"title", "date", "slug", "image", "content"}
    /\ Len(call.result.value) = 1
    /\ DOMAIN call.result.value[1] = {"title"}

loadedDefault ==
    loadedOne /\ call.fields = basicMetaTags

\* C3 as stated: with the default field set the record holds every header
\* key with its header value, plus content, and nothing else.
C3_Original ==
    loadedDefault =>
        LET record == call.result.value
        IN  /\ DOMAIN record = DOMAIN theFile.data \cup {"content"}
            /\ \A k \in DOMAIN theFile.data : record[k] = theFile.data[k]

\* C3 as amended: with the default field set the record holds exactly the
\* header keys that are among the nineteen names of basicMetaTags, each but
\* content with its header value, and content with the body of the file.
C3_DefaultKeepsBasicFields ==
    loadedDefault =>
        LET record == call.result.value
            basic == {"title", "excerpt", "description", "keywords", "content",
                      "coverImage", "date", "author", "slug", "twitterCard",
                      "twitterSite", "twitterTitle", "twitterDescription",
                      "twitterImage", "ogTitle", "ogDescription", "ogImage",
                      "ogURL", "ogSiteName"}
        IN  /\ DOMAIN record = (DOMAIN theFile.data \cap basic) \cup {"content"}
            /\ \A k \in DOMAIN record \ {"content"} : record[k] = theFile.data[k]
            /\ record["content"] = Str(theFile.content)

\* a header with image (not a basic tag) and a content key of its own
C3_Witness ==
    /\ loadedDefault
    /\ {"image", "content", "title"} \subseteq DOMAIN theFile.data
    /\ "image" \notin DOMAIN call.result.value
    /\ call.result.value["content"] = Str(<<"body">>)

\* C4 as stated: when slug is requested the record of file <name>.md has
\* slug = <name>, whatever the header holds.
C4_SlugIsFileName ==
    (loadedOne /\ "slug" \in range(call.fields)) =>
        /\ "slug" \in DOMAIN call.result.value
        /\ call.result.value["slug"] = Str(SubSeq(entries[1], 1, Len(entries[1]) - 1))

\* the name of the file that backs an identifier: the identifier with .md
\* appended, or the identifier itself when it ends in .md
backingFile(slug) ==
    IF Len(slug) > 0 /\ slug[Len(slug)] = ".md" THEN slug ELSE slug \o <<".md">>

\* C15: getPostBySlug fails with the file-not-found error when the posts
\* directory has no file backing the identifier, and with the parser's error
\* when the header of that file cannot be parsed; it returns a record in no
\* other case, and a failed call carries no record.
C15_LoadFailuresPropagate ==
    call.fn = "getPostBySlug" =>
        LET name == backingFile(call.slug)
        IN  /\ name \notin DOMAIN files => call.result = [ok |-> FALSE, error |-> "ENOENT"]
            /\ (name \in DOMAIN files /\ ~files[name].wellFormed)
                  => call.result = [ok |-> FALSE, error |-> "YAMLException"]
            /\ (name \in DOMAIN files /\ files[name].wellFormed) => call.result.ok
            /\ ~call.result.ok => "value" \notin DOMAIN call.result

\* the directory holds a.md and the identifier is b
C15_Witness ==
    /\ call.fn = "getPostBySlug"
    /\ call.slug = <<"b">>
    /\ entries = << <<"a", ".md">> >>
    /\ theFile.wellFormed
    /\ call.result = [ok |-> FALSE, error |-> "ENOENT"]

\* C20: whenever content is among the requested fields the record has
\* content and it is the body of the file: also when the header has no
\* content key, when the body is empty, and when the header has a content
\* key of its own.
C20_ContentIsTheBody ==
    (loadedOne /\ "content" \in range(call.fields)) =>
        /\ "content" \in DOMAIN call.result.value
        /\ call.result.value["content"] = Str(theFile.content)

\* an empty body under a header that has a content key
C20_Witness ==
    /\ loadedOne
    /\ call.fields = <<"content", "title">>
    /\ "content" \in DOMAIN theFile.data
    /\ theFile.data["content"] = Str(<<"header">>)
    /\ theFile.content = <<>>
    /\ call.result.value["content"] = Str(<<>>)

----------------------------------------------------------------------------
(* Claims about the entries of the directory, checked under SpecEntries *)

\* what the loader makes of a file for a field list
projected(file, fields) ==
    [k \in (range(fields) \cap DOMAIN file.data)
           \cup (IF "content" \in range(fields) THEN {"content"} ELSE {}) |->
        IF k = "content" THEN Str(file.content) ELSE file.data[k]]

\* C23: for the i-th entry getAllPosts reads the file named by the entry
\* with one trailing ".md" stripped and ".md" appended: the entry itself if
\* its name ends in ".md", the file N.md for any other entry N.  The call
\* returns records exactly when each of these is a regular file of the
\* directory, and the i-th record is then the record of that file.
C23_EntryIsReadAsMarkdownFile ==
    call.fn = "getAllPosts" =>
        /\ call.result.ok <=>
              \A i \in 1..Len(entries) : backingFile(entries[i]) \in DOMAIN files
        /\ call.result.ok =>
              /\ Len(call.result.value) = Len(entries)
              /\ \A i \in 1..Len(entries) :
                    call.result.value[i] =
                        projected(files[backingFile(entries[i])], call.fields)

\* a sub-directory a beside the file a.md: both records are the one of a.md
C23_Witness ==
    /\ call.fn = "getAllPosts"
    /\ call.fields = <<"content", "title">>
    /\ entries = << <<"a">>, <<"a", ".md">> >>
    /\ DOMAIN files = {<<"a", ".md">>}
    /\ call.result.ok
    /\ call.result.value[1] = call.result.value[2]
    /\ call.result.value[1]["title"] = Str(<<"X">>)

\* C25: a requested field that the header has is in the record with the
\* header's value also when that value is false, 0, the empty string or
\* null; a requested field is left out only when the header does not have
\* it.
C25_PresenceIsDefinedness ==
    loadedOne =>
        \A field \in range(call.fields) \ {"content"} :
            /\ field \in DOMAIN call.result.value <=> field \in DOMAIN theFile.data
            /\ (field \in DOMAIN theFile.data /\ theFile.data[field] \in falsy) =>
                  call.result.value[field] = theFile.data[field]

\* a title that is null, requested beside a field the header lacks
C25_Witness ==
    /\ loadedOne
    /\ call.fields = <<"title", "excerpt">>
    /\ "title" \in DOMAIN theFile.data
    /\ theFile.data["title"] = [type |-> "null"]
    /\ DOMAIN call.result.value = {"title"}
    /\ call.result.value["title"] = [type |-> "null"]

----------------------------------------------------------------------------
(* Claims about the identifier of a post, checked under SpecLoader *)

\* C24: getPostBySlug reads the file named by the identifier with one
\* trailing ".md" stripped and ".md" appended, and returns the record of
\* that file: an identifier s without the ending gives what s + ".md"
\* gives, and an identifier such as a.md.md reads a.md.md, not a.md.
C24_OneSuffixIsStripped ==
    call.fn = "getPostBySlug" =>
        LET s == call.slug
            name == IF Len(s) > 0 /\ s[Len(s)] = ".md" THEN s ELSE s \o <<".md">>
        IN  /\ call.result.ok <=> (name \in DOMAIN files /\ files[name].wellFormed)
            /\ call.result.ok => call.result.value = projected(files[name], call.fields)
            /\ name # s => call.result = getPostBySlug(name, call.fields)

\* the identifier a.md.md where the directory holds a.md
C24_Witness ==
    /\ call.fn = "getPostBySlug"
    /\ call.slug = <<"a", ".md", ".md">>
    /\ entries = << <<"a", ".md">> >>
    /\ theFile.wellFormed
    /\ call.result = [ok |-> FALSE, error |-> "ENOENT"]

----------------------------------------------------------------------------
(* Claims about a build, checked under Spec and SpecSort *)

hasSlug(record) == "slug" \in DOMAIN record

\* C5 as stated: no two records returned by getAllPosts carry the same slug.
C5_SlugsAreUnique ==
    (call.fn = "getAllPosts" /\ call.result.ok /\ "slug" \in range(call.fields)) =>
        \A i, j \in 1..Len(call.result.value) :
            (i # j /\ hasSlug(call.result.value[i]) /\ hasSlug(call.result.value[j]))
                => call.result.value[i]["slug"] # call.result.value[j]["slug"]

\* C6: getAllPosts returns one record per directory entry, in enumeration
\* order: the i-th record is the load of the i-th entry with the field list
\* of the call; nothing is reordered, filtered or deduplicated.
C6_OneRecordPerEntryInOrder ==
    (call.fn = "getAllPosts" /\ call.result.ok) =>
        /\ Len(call.result.value) = Len(entries)
        /\ \A i \in 1..Len(entries) :
              /\ getPostBySlug(entries[i], call.fields).ok
              /\ call.result.value[i] = getPostBySlug(entries[i], call.fields).value

\* three entries whose records differ with their position, two of them equal
C6_Witness ==
    /\ call.fn = "getAllPosts" /\ call.result.ok
    /\ call.fields = <<"title", "date">>
    /\ Len(entries) = 3
    /\ Len(call.result.value) = 3
    /\ call.result.value[1] = call.result.value[3]
    /\ call.result.value[1] # call.result.value[2]

dateOf(record) == newDate(Get(record, "date"))

isPermutation(list, of) ==
    /\ Len(list) = Len(of)
    /\ \E p \in permutations(Len(of)) : \A i \in 1..Len(of) : list[i] = of[p[i]]

\* C7 as stated: the articles the home page returns are what getAllPosts
\* returned, permuted so that no article stands before one of a later date.
C7_SortedByDateDescending ==
    pc = "done" =>
        /\ isPermutation(props.articles, call.result.value)
        /\ \A i, j \in 1..Len(props.articles) :
              i < j => ~dateLess(dateOf(props.articles[i]), dateOf(props.articles[j]))

\* C8 as stated: sorting the sorted list again leaves its order as it is.
C8_SortIsIdempotent ==
    [][(pc = "sorted" /\ pc' = "sortedTwice") => articles' = articles]_vars

\* the date of the record is missing or cannot be parsed
invalidDate(record) ==
    \/ "date" \notin DOMAIN record
    \/ record["date"].s \notin {<<"2021-01-01">>, <<"2022-06-20">>, <<"2023-06-18">>}

\* C26: for any two loaded posts a and b the comparator gives 1 when a's
\* date is strictly earlier than b's, and -1 otherwise, never 0; when the
\* dates are equal or one of them is missing or invalid it gives -1 both
\* for (a, b) and for (b, a).
C26_ComparatorNeverReturnsZero ==
    (call.fn = "getAllPosts" /\ call.fields = basicMetaTags /\ call.result.ok) =>
        \A i, j \in 1..Len(call.result.value) :
            LET a == call.result.value[i]
                b == call.result.value[j]
                earlier == /\ ~invalidDate(a)
                           /\ ~invalidDate(b)
                           /\ dateTable[a["date"].s[1]] < dateTable[b["date"].s[1]]
                tie == \/ invalidDate(a)
                       \/ invalidDate(b)
                       \/ a["date"] = b["date"]
            IN  /\ compare(a, b) = (IF earlier THEN 1 ELSE -1)
                /\ tie => (compare(a, b) = -1 /\ compare(b, a) = -1)

\* two posts of one date that have changed places in the sort, beside a
\* post whose date cannot be parsed
C26_Witness ==
    /\ pc = "sorted"
    /\ Len(articles) = 3
    /\ \E i, j, k \in 1..3 :
          /\ i < j
          /\ articles[i] = call.result.value[j]
          /\ articles[j] = call.result.value[i]
          /\ articles[i] # articles[j]
          /\ ~invalidDate(articles[i])
          /\ ~invalidDate(articles[j])
          /\ articles[i]["date"] = articles[j]["date"]
          /\ "date" \in DOMAIN articles[k]
          /\ invalidDate(articles[k])
          /\ compare(articles[i], articles[j]) = -1
          /\ compare(articles[j], articles[i]) = -1

written == pc \in {"written", "done"}

urlOf(record) ==
    IF hasSlug(record)
    THEN Str(<<"https://bgolebiowski.com", "/blog/">> \o record["slug"].s)
    ELSE Str(<<"https://bgolebiowski.com", "/blog/", "undefined">>)

\* C9: the feed written has one item per article, in the order of the
\* articles; no article is skipped and equal slugs are not merged.
C9_OneItemPerPost ==
    written =>
        /\ rss.exists
        /\ Len(rss.xml.item) = Len(articles)
        /\ \A i \in 1..Len(articles) :
              /\ rss.xml.item[i].link = urlOf(articles[i])
              /\ rss.xml.item[i].pubDate = dateOf(articles[i])
              /\ rss.xml.item[i].title = Get(articles[i], "title")

\* three articles, one without a slug and two with the same slug
C9_Witness ==
    /\ written
    /\ Len(articles) = 3
    /\ Len(rss.xml.item) = 3
    /\ \E i, j, k \in 1..3 :
          /\ i # j
          /\ ~hasSlug(articles[k])
          /\ hasSlug(articles[i]) /\ hasSlug(articles[j])
          /\ articles[i]["slug"] = articles[j]["slug"]
          /\ articles[i] # articles[j]

itemUrlIsCanonical ==
    \A i \in 1..Len(articles) :
        /\ rss.xml.item[i].link = urlOf(articles[i])
        /\ rss.xml.item[i].guid = rss.xml.item[i].link

healthy ==
    readable /\ \A i \in 1..Len(entries) : files[entries[i]].wellFormed

\* C16: getAllPosts and getStaticPaths return a result exactly when the
\* directory can be read and every entry loads, and a failed call carries no
\* records and no paths; when the directory cannot be read or some entry
\* fails to load, the build of the home page fails before it has sorted,
\* written a feed or returned props.
C16_NoPartialEnumeration ==
    /\ call.fn \in {"getAllPosts", "getStaticPaths"} =>
          /\ call.result.ok <=> healthy
          /\ ~call.result.ok => "value" \notin DOMAIN call.result
    /\ (call.fn = "getAllPosts" /\ call.result.ok) =>
          Len(call.result.value) = Len(entries)
    /\ ~healthy =>
          /\ pc \in {"idle", "failed"}
          /\ articles = <<>>
          /\ writes = 0
          /\ rss = NoFile
          /\ props = NoProps

\* two posts that load before one that does not: the build has failed
C16_Witness ==
    /\ pc = "failed"
    /\ Len(entries) = 3
    /\ files[entries[1]].wellFormed
    /\ files[entries[2]].wellFormed
    /\ ~files[entries[3]].wellFormed
    /\ call.fn = "getAllPosts"
    /\ call.result = [ok |-> FALSE, error |-> "YAMLException"]
    /\ rss = NoFile
    /\ props = NoProps

\* C17: a build calls fs.writeFileSync at most once; when that call fails
\* the build has failed with its one attempt made and no props
\* returned; props are returned only after a write that succeeded.
C17_WriteFailureIsFatal ==
    /\ writes <= 1
    /\ (pc = "failed" /\ writes = 1) => (props = NoProps /\ feed.built)
    /\ pc \in {"written", "done"} => (writes = 1 /\ rss.exists)
    /\ props.returned => (pc = "done" /\ rss.exists)

\* the write of the feed of two articles has failed
C17_Witness ==
    /\ pc = "failed"
    /\ healthy
    /\ Len(articles) = 2
    /\ Len(feed.items) = 2
    /\ writes = 1
    /\ props = NoProps
    /\ rss = NoFile

\* C18: no step changes the posts directory; the feed file changes, and
\* fs.writeFileSync is called, in no step but the write of the home page's
\* getStaticProps, which happens at most once in a build: the calls of
\* getPostBySlug, getAllPosts, getStaticPaths and the post page's
\* getStaticProps leave both as they are.
C18_OnlyTheFeedWriteHasEffect ==
    [][/\ store' = store
       /\ (rss' # rss \/ writes' # writes) =>
             /\ pc = "sorted"
             /\ pc' \in {"written", "failed"}
             /\ call' = call
             /\ writes = 0
             /\ writes' = 1
       /\ call' # call => (rss' = rss /\ writes' = writes)]_vars

\* the post page has computed the props of a path and there is no feed file
C18_Witness ==
    /\ call.fn = "getStaticProps"
    /\ call.result.ok
    /\ Len(entries) = 2
    /\ pc = "idle"
    /\ writes = 0
    /\ rss = NoFile

\* C22 as stated: the props of the i-th path come from the i-th entry of the
\* directory: the slug of the path is a string, the file it is resolved to
\* is that entry, and the load succeeds.
C22_PathResolvesToItsPost ==
    call.fn = "getStaticProps" =>
        /\ call.params.slug.type = "string"
        /\ backingFile(call.params.slug.s) = entries[call.index]
        /\ call.result.ok

notFound == [page |-> "ErrorPage", statusCode |-> 404]

article == [page |-> "article", parts |-> <<"PostHead", "PostHeader", "PostBody">>]

\* the post prop has a slug that is not the empty string
truthySlug(post) ==
    "slug" \in DOMAIN post /\ post["slug"] # Str(<<>>)

\* the header of the i-th entry has a slug
headerHasSlug(i) ==
    files[entries[i]].wellFormed /\ "slug" \in DOMAIN files[entries[i]].data

C12_EmptyBuildWritesEmptyFeed ==
    (readable /\ entries = <<>>) =>
        /\ pc = "failed" => writes = 1
        /\ written =>
              /\ rss.exists
              /\ rss.xml.channel =
                    [title       |-> <<"Articles by Bartosz Golebiowski">>,
                     description |-> <<"Blog with articles about frontend technology, react, micro-frontends, single-spa">>,
                     link        |-> <<"https://bgolebiowski.com">>]
              /\ rss.xml.item = <<>>
        /\ pc = "done" => (props.returned /\ props.articles = <<>>)

\* the build of the empty directory has returned its props
C12_Witness ==
    /\ readable
    /\ entries = <<>>
    /\ pc = "done"
    /\ rss.exists
    /\ rss.xml.item = <<>>
    /\ props.articles = <<>>

----------------------------------------------------------------------------
(* Claims about the feed items, checked under SpecFeed *)

\* C11: the i-th item added to the feed comes from the i-th article alone:
\* title is its title, description its excerpt, content its content, image
\* its coverImage, category its keywords, date the time parsed from its
\* date, and the author list holds its author and nothing else.
C11_ItemFieldsFollowPostFields ==
    feed.built =>
        /\ Len(feed.items) = Len(articles)
        /\ \A i \in 1..Len(articles) :
              LET item == feed.items[i]
                  post == articles[i]
              IN  /\ item.title = Get(post, "title")
                  /\ item.description = Get(post, "excerpt")
                  /\ item.content = Get(post, "content")
                  /\ item.image = Get(post, "coverImage")
                  /\ item.category = Get(post, "keywords")
                  /\ item.date = newDate(Get(post, "date"))
                  /\ item.author = <<Get(post, "author")>>

\* two posts with full headers, the later one first in the feed
C11_Witness ==
    /\ pc = "written"
    /\ Len(feed.items) = 2
    /\ feed.items[1] =
          [title       |-> Str(<<"title", "b">>),
           id          |-> Str(<<"https://bgolebiowski.com", "/blog/", "b">>),
           link        |-> Str(<<"https://bgolebiowski.com", "/blog/", "b">>),
           description |-> Str(<<"excerpt", "b">>),
           content     |-> Str(<<"body", "b">>),
           author      |-> <<Str(<<"author", "b">>)>>,
           date        |-> 20220620,
           image       |-> Str(<<"coverImage", "b">>),
           category    |-> Str(<<"keywords", "b">>)]
    /\ feed.items[2].title = Str(<<"title", "a">>)
    /\ feed.items[2].description = Str(<<"excerpt", "a">>)
    /\ feed.items[2].content = Str(<<"body", "a">>)

----------------------------------------------------------------------------
(* Claims about builds that follow one another, checked under SpecRebuild *)

itemOf(record) ==
    [title       |-> Get(record, "title"),
     link        |-> urlOf(record),
     guid        |-> urlOf(record),
     pubDate     |-> dateOf(record),
     description |-> Get(record, "excerpt"),
     encoded     |-> Get(record, "content"),
     category    |-> Get(record, "keywords"),
     enclosure   |-> Get(record, "coverImage")]

\* C13: the feed file changes only in the write of generateRSSFeed, and
\* after that write it holds the items of the articles of that call and no
\* other, whatever the file held before; a build that fails leaves the file
\* of the last build that wrote it.
C13_FeedIsOverwritten ==
    [][(rss' # rss \/ (pc = "sorted" /\ pc' = "written")) =>
          /\ pc = "sorted"
          /\ rss'.exists
          /\ Len(rss'.xml.item) = Len(articles)
          /\ \A i \in 1..Len(articles) : rss'.xml.item[i] = itemOf(articles[i])]_vars

\* a build of one post has written over the feed of a build of two posts
C13_Witness ==
    /\ pc = "written"
    /\ props.returned
    /\ Len(props.articles) = 2
    /\ Len(articles) = 1
    /\ Len(rss.xml.item) = 1
    /\ rss.xml.item[1].title = Str(<<"title", "a">>)

\* C14: a build whose articles are those of the build that wrote the feed
\* file writes the same content again.
C14_SameArticlesSameFeed ==
    [][(pc = "sorted" /\ pc' = "written" /\ props.returned /\ props.articles = articles)
          => rss' = rss]_vars

\* the second of two builds over the same two posts has written the feed
C14_Witness ==
    /\ pc = "written"
    /\ props.returned
    /\ props.articles = articles
    /\ Len(articles) = 2
    /\ articles[1] # articles[2]
    /\ Len(rss.xml.item) = 2

\* what the loader makes of the i-th entry of the directory as it is now,
\* asked for the default fields: the header keys and the body as content
recordOfEntry(i) ==
    LET file == files[entries[i]]
    IN  [k \in DOMAIN file.data \cup {"content"} |->
            IF k = "content" THEN Str(file.content) ELSE file.data[k]]

\* C21: from the load to the return of a build the articles are the
\* records of the entries the directory has in this build, each with the
\* field values of its file, in some order; the sort and generateRSSFeed
\* change no field, the props returned hold these same records, and nothing
\* of the build before is among them.
C21_RecordsAreImmutable ==
    pc \in {"loaded", "sorted", "written", "done"} =>
        /\ isPermutation(articles, [i \in 1..Len(entries) |-> recordOfEntry(i)])
        /\ call.fn = "getAllPosts" /\ call.result.ok
        /\ isPermutation(articles, call.result.value)
        /\ pc = "done" => props.articles = articles

\* a build of one post, sorted, after a build that returned two others
C21_Witness ==
    /\ pc = "written"
    /\ props.returned
    /\ Len(props.articles) = 2
    /\ props.articles[1]["slug"] = Str(<<"b">>)
    /\ props.articles[2]["slug"] = Str(<<"b">>)
    /\ Len(articles) = 1
    /\ articles[1] = recordOfEntry(1)
    /\ articles[1]["slug"] = Str(<<"a">>)

\* C27: the feed has an item for every article whatever fields its record
\* has; a field the record lacks is passed on as undefined: description,
\* content, image and category are undefined, the author list holds
\* undefined, the date is the invalid date, and id and link end in
\* "/blog/undefined"; no other value is put in its place.
C27_MissingFieldsPassThrough ==
    feed.built =>
        /\ Len(feed.items) = Len(articles)
        /\ \A i \in 1..Len(articles) :
              LET item == feed.items[i]
                  lacks(field) == field \notin DOMAIN articles[i]
              IN  /\ lacks("title") => item.title = [type |-> "undefined"]
                  /\ lacks("excerpt") => item.description = [type |-> "undefined"]
                  /\ lacks("content") => item.content = [type |-> "undefined"]
                  /\ lacks("coverImage") => item.image = [type |-> "undefined"]
                  /\ lacks("keywords") => item.category = [type |-> "undefined"]
                  /\ lacks("author") => item.author = <<[type |-> "undefined"]>>
                  /\ lacks("date") => item.date = NaN
                  /\ lacks("slug") =>
                        /\ item.id = Str(<<"https://bgolebiowski.com", "/blog/", "undefined">>)
                        /\ item.link = item.id

\* a post without excerpt beside a post without slug
C27_Witness ==
    /\ pc = "written"
    /\ Len(articles) = 2
    /\ \E i, j \in 1..2 :
          /\ DOMAIN articles[i] =
                {"title", "keywords", "coverImage", "author", "date", "slug", "content"}
          /\ feed.items[i].description = [type |-> "undefined"]
          /\ feed.items[i].title = Str(<<"title", "a">>)
          /\ DOMAIN articles[j] =
                {"title", "excerpt", "keywords", "coverImage", "author", "date", "content"}
          /\ feed.items[j].link = Str(<<"https://bgolebiowski.com", "/blog/", "undefined">>)
          /\ rss.xml.item[j].guid = feed.items[j].link

\* C28: the post that the post page's getStaticProps returns has the keys
\* of the record loaded for params.slug and content; every key but content
\* has the value of the record, and content is the loaded body converted to
\* HTML, the conversion of the empty string for an empty body.
C28_PostPropsKeepTheRecord ==
    (call.fn = "getStaticProps" /\ call.result.ok) =>
        LET name == backingFile(call.params.slug.s)
            post == call.result.value.props.post
        IN  /\ DOMAIN post = DOMAIN files[name].data \cup {"content"}
            /\ \A k \in DOMAIN post \ {"content"} : post[k] = files[name].data[k]
            /\ post["content"] = Str(markdownToHtml(files[name].content))

\* the props of the path of a post with a full header and an empty body
C28_Witness ==
    /\ call.fn = "getStaticProps"
    /\ call.result.ok
    /\ call.params.slug = Str(<<"a">>)
    /\ files[<<"a", ".md">>].content = <<>>
    /\ DOMAIN call.result.value.props.post =
          {"title", "excerpt", "keywords", "coverImage", "author", "date", "slug", "content"}
    /\ call.result.value.props.post["content"] = Str(markdownToHtml(<<>>))
    /\ call.result.value.props.post["title"] = Str(<<"title", "a">>)

\* the steps of getStaticProps of the home page, in the order of its code
passOrder ==
    {<<"idle", "loaded">>, <<"idle", "failed">>, <<"loaded", "sorted">>,
     <<"sorted", "written">>, <<"sorted", "failed">>, <<"written", "done">>}

\* C19: a build goes through its steps in one order: load, sort, write,
\* return.  The feed file is written only from the list the sort has left of
\* the complete load, one record per directory entry, and props are
\* returned only after the write, with the articles in the order of the
\* items of the feed.
C19_SingleOrderedPass ==
    [][/\ pc' # pc => <<pc, pc'>> \in passOrder
       /\ rss' # rss =>
             /\ pc = "sorted"
             /\ call.fn = "getAllPosts" /\ call.result.ok
             /\ Len(call.result.value) = Len(entries)
             /\ articles \in sortOutcomes(call.result.value)
             /\ Len(rss'.xml.item) = Len(articles)
             /\ \A i \in 1..Len(articles) : rss'.xml.item[i].guid = urlOf(articles[i])
       /\ props' # props =>
             /\ pc = "written"
             /\ rss.exists
             /\ Len(rss.xml.item) = Len(props'.articles)
             /\ \A i \in 1..Len(props'.articles) :
                   rss.xml.item[i].guid = urlOf(props'.articles[i])]_vars

\* the directory lists the earlier post first; feed and props have the
\* later post first
C19_Witness ==
    /\ pc = "done"
    /\ Len(entries) = 2
    /\ files[entries[1]] = postFile(fullHeader("a", "2021-01-01"), <<"body", "a">>)
    /\ files[entries[2]] = postFile(fullHeader("b", "2022-06-20"), <<"body", "b">>)
    /\ Len(props.articles) = 2
    /\ props.articles[1]["slug"] = Str(<<"b">>)
    /\ props.articles[2]["slug"] = Str(<<"a">>)
    /\ rss.xml.item[1].guid = Str(<<"https://bgolebiowski.com", "/blog/", "b">>)
    /\ rss.xml.item[2].guid = Str(<<"https://bgolebiowski.com", "/blog/", "a">>)

====
